---- MODULE Spec2Model ----
(***************************************************************************)
(* A model of MakiFlow's SSD detector (makiflow/models/ssd/ssd_model.py):  *)
(* default-box generation and lookup, the three hard-negative-mining       *)
(* losses, and the training calls that bind an optimizer and run the       *)
(* epoch/batch loop.                                                       *)
(*                                                                         *)
(* Floating-point values are modelled as exact rationals extended with the *)
(* IEEE specials NaN and +-Inf; rounding error of the hardware is not      *)
(* modelled.                                                               *)
(***************************************************************************)
EXTENDS Integers, Sequences, FiniteSets, TLC

\* ------------------------------------------------------------------------
\* Floats: [k |-> "fin", n |-> numerator, d |-> denominator > 0] in lowest
\* terms, or NaN, or Inf(+1 / -1).  The binary operations take their two
\* arguments by value: XOf(x, y) is the operation on values, X(p, q) evaluates
\* p and q once and applies it.
\* ------------------------------------------------------------------------

Abs(x) == IF x < 0 THEN -x ELSE x

Sign(x) == IF x < 0 THEN -1 ELSE IF x > 0 THEN 1 ELSE 0

RECURSIVE GCD(_, _)
GCD(a, b) == IF b = 0 THEN a ELSE GCD(b, a % b)

Fin(n, d) ==
    IF d = 1 THEN [k |-> "fin", n |-> n, d |-> 1]
    ELSE LET g == GCD(Abs(n), d)
         IN  [k |-> "fin", n |-> n \div g, d |-> d \div g]

NaN == [k |-> "nan", n |-> 0, d |-> 1]

Inf(s) == [k |-> "inf", n |-> s, d |-> 1]

I(n) == [k |-> "fin", n |-> n, d |-> 1]

IsFin(x) == x.k = "fin"

IsNaN(x) == x.k = "nan"

IsZero(x) == x.k = "fin" /\ x.n = 0

FNeg(x) == [x EXCEPT !.n = -x.n]

FAddOf(x, y) ==
    IF x.k = "fin" /\ y.k = "fin" THEN Fin(x.n * y.d + y.n * x.d, x.d * y.d)
    ELSE IF x.k = "nan" \/ y.k = "nan" THEN NaN
    ELSE IF x.k = "inf" /\ y.k = "inf" THEN (IF x.n = y.n THEN x ELSE NaN)
    ELSE IF x.k = "inf" THEN x
    ELSE y

FAdd(p, q) == CHOOSE r \in {FAddOf(x, y) : x \in {p}, y \in {q}} : TRUE

FSub(x, y) == FAdd(x, FNeg(y))

FMulOf(x, y) ==
    IF x.k = "fin" /\ y.k = "fin" THEN Fin(x.n * y.n, x.d * y.d)
    ELSE IF x.k = "nan" \/ y.k = "nan" THEN NaN
    ELSE IF IsZero(x) \/ IsZero(y) THEN NaN
    ELSE Inf(Sign(x.n) * Sign(y.n))

FMul(p, q) == CHOOSE r \in {FMulOf(x, y) : x \in {p}, y \in {q}} : TRUE

\* IEEE division: x / 0 is +-Inf for x # 0, and 0 / 0 is NaN
FDivOf(x, y) ==
    IF x.k = "fin" /\ y.k = "fin"
    THEN (IF y.n = 0 THEN (IF x.n = 0 THEN NaN ELSE Inf(Sign(x.n)))
          ELSE Fin(Sign(y.n) * x.n * y.d, x.d * Abs(y.n)))
    ELSE IF x.k = "nan" \/ y.k = "nan" THEN NaN
    ELSE IF x.k = "inf" /\ y.k = "inf" THEN NaN
    ELSE IF x.k = "inf" THEN Inf(x.n * (IF y.n < 0 THEN -1 ELSE 1))
    ELSE I(0)

FDiv(p, q) == CHOOSE r \in {FDivOf(x, y) : x \in {p}, y \in {q}} : TRUE

\* x < y; every comparison with NaN is false
FLessOf(x, y) ==
    IF x.k = "fin" /\ y.k = "fin" THEN x.n * y.d < y.n * x.d
    ELSE IF x.k = "nan" \/ y.k = "nan" THEN FALSE
    ELSE IF x.k = "inf" THEN x.n < 0 /\ ~(y.k = "inf" /\ y.n < 0)
    ELSE y.n > 0

FLess(p, q) == CHOOSE r \in {FLessOf(x, y) : x \in {p}, y \in {q}} : TRUE

FLe(x, y) == x.k # "nan" /\ y.k # "nan" /\ ~FLess(y, x)

\* Python's max(a, b): the first of the largest
PyMax(a, b) == IF FLess(a, b) THEN b ELSE a

\* Python's min(a, b): the first of the smallest
PyMin(a, b) == IF FLess(b, a) THEN b ELSE a

FAbs(x) == [x EXCEPT !.n = Abs(x.n)]

\* the sum of a sequence of floats, left to right
RECURSIVE FSumFrom(_, _, _)
FSumFrom(s, i, acc) == IF i > Len(s) THEN acc ELSE FSumFrom(s, i + 1, FAdd(acc, s[i]))

FSumSeq(s) == FSumFrom(s, 1, I(0))

\* np.vstack / list concatenation of a sequence of sequences
RECURSIVE Flatten(_)
Flatten(ss) == IF ss = <<>> THEN <<>> ELSE Head(ss) \o Flatten(Tail(ss))

\* ------------------------------------------------------------------------
\* Bounds and input domains
\* ------------------------------------------------------------------------

\* square and non-square feature maps up to MaxFm cells wide and high, and two
\* larger non-square ones
MaxFm == 2

FeatureMaps == ((1..MaxFm) \X (1..MaxFm)) \cup {<<2, 3>>, <<3, 2>>}

\* numbers of detector blocks of a model
BlockCounts == {1, 2}

\* (image width, image height)
ImageSizes == {<<4, 4>>, <<6, 4>>}

\* the default-box characteristics (w, h) a detector block may carry
ShapeLists ==
    { << <<I(1), I(1)>> >>,
      << <<I(1), I(1)>>, <<Fin(1, 2), Fin(1, 2)>> >>,
      << <<I(2), I(1)>>, <<I(1), I(3)>> >>,
      << <<I(-1), I(1)>> >> }

\* the detector blocks and the image of the model whose losses are evaluated:
\* one block with a 2x1 feature map and one shape, so two default boxes
LossBlocks == <<[fmap |-> <<2, 1>>, dboxes |-> << <<I(1), I(1)>> >>]>>

LossImage == <<4, 4>>

\* self.batch_sz = self.input_shape[0]
batch_sz == 2

\* What the graph holds for one anchor of one batch element: the positive mask
\* fed, the softmax confidence of the labelled class and the cross-entropy of
\* the logits against the label (in units of ln 2, so ce = -log2(conf)), the
\* ground-truth offsets fed and the offsets predicted.
Zero4 == <<I(0), I(0), I(0), I(0)>>

AnchorCases ==
    { [mask |-> I(1), conf |-> Fin(1, 2), ce |-> I(1),
       gt |-> <<Fin(1, 2), I(1), I(0), I(3)>>, off |-> <<I(0), I(0), I(2), I(3)>>],
      [mask |-> I(1), conf |-> Fin(1, 4), ce |-> I(2),
       gt |-> <<I(0), I(0), I(0), Fin(3, 2)>>, off |-> Zero4],
      [mask |-> I(0), conf |-> I(1), ce |-> I(0),
       gt |-> <<I(3), I(0), I(0), I(0)>>, off |-> Zero4],
      [mask |-> I(0), conf |-> Fin(1, 2), ce |-> I(1),
       gt |-> Zero4, off |-> Zero4],
      [mask |-> I(0), conf |-> Fin(1, 4), ce |-> I(2),
       gt |-> Zero4, off |-> <<I(1), I(0), I(0), I(0)>>] }

\* loc_loss_weight, gamma and neg_samples_ratio of a training call
LossWeights == {I(1), I(2)}

Gammas == {0, 2}

NegRatios == {Fin(1, 2), I(1), Fin(3, 2), I(3), Fin(-1, 2)}

\* what the model's final-loss hook adds to a training loss: nothing, or a
\* regularisation term
RegTerms == {I(0), Fin(1, 10)}

\* a detector block: its feature map (width, height) and its default boxes
DCBlocks == [fmap : FeatureMaps, dboxes : ShapeLists]

DCLists == UNION {[1..n -> DCBlocks] : n \in BlockCounts}

\* ------------------------------------------------------------------------
\* State
\* ------------------------------------------------------------------------

VARIABLES
    dcs,                         \* self.dcs
    input_shape,                 \* <<image width, image height>> (input_shape[1], [2])
    default_boxes_wh,            \* center form (cx, cy, w, h)
    default_boxes,               \* corner form (x1, y1, x2, y2), clipped
    dc_block_feature_map_sizes,  \* (width, height) per block
    total_predictions,
    dbox_call,                   \* the last get_dbox call: its arguments and result
    reg_term,                    \* the term the model's final-loss hook adds
    feed,                        \* the batch fed to the training placeholders
    loss_run,                    \* the last evaluation of a strategy's losses
    train,                       \* the training state of the model (its flags, bound
                                 \* optimizers and minimization ops)
    fit,                         \* the fit_* call in progress or last returned
    bal,                         \* a GDBalancer object
    prediction,                  \* the last predict call: its result
    data                         \* the four arrays of a training call and its batches

anchorVars == <<dcs, input_shape, default_boxes_wh, default_boxes,
                dc_block_feature_map_sizes, total_predictions>>

vars == <<dcs, input_shape, default_boxes_wh, default_boxes,
          dc_block_feature_map_sizes, total_predictions, dbox_call,
          reg_term, feed, loss_run, train, fit, bal, prediction, data>>

lossVars == <<reg_term, feed, loss_run>>

trainVars == <<train, fit>>

\* ------------------------------------------------------------------------
\* Default boxes: SSDModel._default_box_generator, _generate_default_boxes,
\* _correct_default_boxes, get_dbox
\* ------------------------------------------------------------------------

\* boxes[i * width + j]: where the generator stores cell (row i, column j)
BoxIndex(i, j, width) == i * width + j

\* the generator with rows and columns confused in the cell's center
CellBoxSwapped(image_width, image_height, width, height, w, h, i, j) ==
    LET width_per_cell  == FDiv(I(image_width), I(width))
        height_per_cell == FDiv(I(image_height), I(height))
    IN  << FAdd(FMul(I(i), width_per_cell), FDiv(width_per_cell, I(2))),
           FAdd(FMul(I(j), height_per_cell), FDiv(height_per_cell, I(2))),
           FMul(width_per_cell, w),
           FMul(height_per_cell, h) >>

\* the four values the generator writes for cell (row i, column j), shape (w, h)
CellBox(image_width, image_height, width, height, w, h, i, j) ==
    LET width_per_cell  == FDiv(I(image_width), I(width))
        height_per_cell == FDiv(I(image_height), I(height))
        current_height  == FMul(I(i), height_per_cell)
        current_width   == FMul(I(j), width_per_cell)
    IN  << FAdd(current_width, FDiv(width_per_cell, I(2))),
           FAdd(current_height, FDiv(height_per_cell, I(2))),
           FMul(width_per_cell, w),
           FMul(height_per_cell, h) >>

ZeroBox == <<I(0), I(0), I(0), I(0)>>

\* the loops over i in range(height), j in range(width), from step t on:
\* step t visits i = t \div width, j = t % width
RECURSIVE FillBoxes(_, _, _, _, _, _, _, _)
FillBoxes(boxes, t, image_width, image_height, width, height, w, h) ==
    IF t >= width * height THEN boxes
    ELSE LET i == t \div width
             j == t % width
         IN  FillBoxes(
                 [boxes EXCEPT ![BoxIndex(i, j, width) + 1] =
                     CellBox(image_width, image_height, width, height, w, h, i, j)],
                 t + 1, image_width, image_height, width, height, w, h)

\* boxes = np.zeros((box_count, 4)), then filled, for one (w, h)
ShapeBoxes(image_width, image_height, width, height, w, h) ==
    LET box_count == width * height
    IN  FillBoxes([p \in 1..box_count |-> ZeroBox], 0,
                  image_width, image_height, width, height, w, h)

\* the generator keeping only the boxes of the last (w, h)
default_box_generator_last(image_width, image_height, width, height, dboxes) ==
    ShapeBoxes(image_width, image_height, width, height,
               dboxes[Len(dboxes)][1], dboxes[Len(dboxes)][2])

default_box_generator(image_width, image_height, width, height, dboxes) ==
    Flatten([s \in 1..Len(dboxes) |->
        ShapeBoxes(image_width, image_height, width, height, dboxes[s][1], dboxes[s][2])])

\* (x, y, w, h) -----> (x1, y1, x2, y2)
ToCorners(dbox) ==
    << FSub(dbox[1], FDiv(dbox[3], I(2))),
       FSub(dbox[2], FDiv(dbox[4], I(2))),
       FAdd(dbox[1], FDiv(dbox[3], I(2))),
       FAdd(dbox[2], FDiv(dbox[4], I(2))) >>

\* one box of _correct_default_boxes
CorrectBox(dbox, max_x, max_y) ==
    << PyMax(I(0), dbox[1]),
       PyMax(I(0), dbox[2]),
       PyMin(I(max_x), dbox[3]),
       PyMin(I(max_y), dbox[4]) >>

correct_default_boxes(dboxes, shape) ==
    [i \in 1..Len(dboxes) |-> CorrectBox(dboxes[i], shape[1], shape[2])]

\* the center-form array _generate_default_boxes stacks over the blocks
GenerateBoxesWH(blocks, shape) ==
    Flatten([b \in 1..Len(blocks) |->
        default_box_generator(shape[1], shape[2],
                              blocks[b].fmap[1], blocks[b].fmap[2], blocks[b].dboxes)])

FeatureMapSizes(blocks) == [b \in 1..Len(blocks) |-> blocks[b].fmap]

\* the corner-form array: a copy of the center-form one, converted, then clipped
GenerateBoxes(boxes_wh, shape) ==
    correct_default_boxes([i \in 1..Len(boxes_wh) |-> ToCorners(boxes_wh[i])], shape)

\* a conversion that writes its rows into the center-form array itself
AfterConversionInPlace(boxes_wh, boxes) == boxes

\* the array self.default_boxes_wh names once the conversion and the clipping
\* have written the rows of self.default_boxes: copy() made them two arrays,
\* so the writes to one do not reach the other
AfterConversion(boxes_wh, boxes) == boxes_wh

\* the state _generate_default_boxes leaves for blocks `blocks`, image `shape`
generate_default_boxes(blocks, shape) ==
    LET boxes_wh == GenerateBoxesWH(blocks, shape)
        boxes    == GenerateBoxes(boxes_wh, shape)
    IN  /\ dcs = blocks
        /\ input_shape = shape
        /\ dc_block_feature_map_sizes = FeatureMapSizes(blocks)
        /\ default_boxes_wh = AfterConversion(boxes_wh, boxes)
        /\ default_boxes = boxes
        /\ total_predictions = Len(boxes)

\* dcblock_dboxes_to_pass of get_dbox (0-based blocks, categories, positions)
RECURSIVE BlocksToPass(_)
BlocksToPass(dc_block_ind) ==
    IF dc_block_ind = 0 THEN 0
    ELSE BlocksToPass(dc_block_ind - 1)
         + dc_block_feature_map_sizes[dc_block_ind][1]
           * dc_block_feature_map_sizes[dc_block_ind][2]
           * Len(dcs[dc_block_ind].dboxes)

CellOffset(width, x_pos, y_pos) == width * x_pos + y_pos

DboxOffset(dc_block_ind, dbox_category, x_pos, y_pos) ==
    BlocksToPass(dc_block_ind)
    + dbox_category * (dc_block_feature_map_sizes[dc_block_ind + 1][1]
                       * dc_block_feature_map_sizes[dc_block_ind + 1][2])
    + CellOffset(dc_block_feature_map_sizes[dc_block_ind + 1][1], x_pos, y_pos)

NoCall == [status |-> "none", args |-> <<0, 0, 0, 0>>, offset |-> 0, box |-> ZeroBox]

\* get_dbox with valid arguments; an offset past the array is numpy's IndexError
get_dbox(dc_block_ind, dbox_category, x_pos, y_pos) ==
    LET off == DboxOffset(dc_block_ind, dbox_category, x_pos, y_pos)
    IN  /\ dbox_call' =
            IF off < Len(default_boxes)
            THEN [status |-> "ok", args |-> <<dc_block_ind, dbox_category, x_pos, y_pos>>,
                  offset |-> off, box |-> default_boxes[off + 1]]
            ELSE [status |-> "IndexError",
                  args |-> <<dc_block_ind, dbox_category, x_pos, y_pos>>,
                  offset |-> off, box |-> ZeroBox]
        /\ UNCHANGED <<anchorVars, lossVars, trainVars, bal, prediction, data>>

GetDbox ==
    \E b \in 0..(Len(dcs) - 1) :
      \E s \in 0..(Len(dcs[b + 1].dboxes) - 1) :
        \E x \in 0..(dc_block_feature_map_sizes[b + 1][1] - 1) :
          \E y \in 0..(dc_block_feature_map_sizes[b + 1][2] - 1) :
            get_dbox(b, s, x, y)

\* the offsets the network predicts for an anchor (the same for every anchor)
PredictedOffsets == {<<I(1), I(-1), Fin(1, 2), I(0)>>}

NoPrediction == [status |-> "none", boxes |-> <<>>]

\* predicted_boxes = self.offsets_tensor + self.default_boxes, for one image
predicted_boxes(offsets) ==
    [i \in 1..Len(default_boxes) |->
        [c \in 1..4 |-> FAdd(offsets[c], default_boxes[i][c])]]

\* predict, with the session set: a run of self.predictions
predict(offsets) ==
    /\ prediction' = [status |-> "ok", boxes |-> predicted_boxes(offsets)]
    /\ UNCHANGED <<anchorVars, dbox_call, lossVars, trainVars, bal, data>>

Predict == \E offsets \in PredictedOffsets : predict(offsets)

\* ------------------------------------------------------------------------
\* The training graph and the three losses: _prepare_training_graph,
\* _build_loc_loss, _build_focal_loss, _build_top_k_loss, _build_scan_loss
\* ------------------------------------------------------------------------

\* tf.reduce_sum of a [batch_sz, total_predictions] tensor; the tensors below
\* are elementwise over the batch fed, which has that shape
ReduceSum(t) == FSumSeq([r \in 1..Len(t) |-> FSumSeq(t[r])])

\* self._num_positives = tf.reduce_sum(self._input_loc_loss_masks)
num_positives(batch) ==
    LET m(r, a) == batch[r][a].mask
    IN  ReduceSum([r \in 1..Len(batch) |-> [a \in 1..Len(batch[r]) |-> m(r, a)]])

\* the smooth L1 loss of one coordinate difference
SmoothL1(diff) ==
    LET loc_loss_l2 == FMul(Fin(1, 2), FMul(diff, diff))
        loc_loss_l1 == FSub(FAbs(diff), Fin(1, 2))
        smooth_l1_condition == FLess(FAbs(diff), I(1))
    IN  IF smooth_l1_condition THEN loc_loss_l2 ELSE loc_loss_l1

\* a localization loss that leaves out the positive mask
loc_loss_unmasked(batch) ==
    LET l(r, a) ==
            FSumSeq([c \in 1..4 |-> SmoothL1(FSub(batch[r][a].gt[c], batch[r][a].off[c]))])
    IN  FDiv(ReduceSum([r \in 1..Len(batch) |-> [a \in 1..Len(batch[r]) |-> l(r, a)]]), num_positives(batch))

\* self._loc_loss
loc_loss(batch) ==
    LET l(r, a) ==
            FSumSeq([c \in 1..4 |->
                FMul(batch[r][a].mask,
                     SmoothL1(FSub(batch[r][a].gt[c], batch[r][a].off[c])))])
    IN  FDiv(ReduceSum([r \in 1..Len(batch) |-> [a \in 1..Len(batch[r]) |-> l(r, a)]]), num_positives(batch))

\* tf.pow(x, gamma) for a gamma that is a whole number >= 0
RECURSIVE FPow(_, _)
FPow(x, g) == IF g = 0 THEN I(1) ELSE FMul(x, FPow(x, g - 1))

\* tf.where(condition, x, y) on scalars
TfWhere(condition, x, y) == IF condition THEN x ELSE y

\* the zero-positives test against 0 instead of 1
NoPositivesBelowZero(batch) == FLess(num_positives(batch), I(0))

\* tf.less(self._num_positives, 1.0)
NoPositives(batch) == FLess(num_positives(batch), I(1))

\* MakiModel._build_final_loss: the hook of the surrounding model
build_final_loss(training_loss) == FAdd(training_loss, reg_term)

\* self._final_*_loss = self._build_final_loss(total_loss), of a run that succeeds
WithFinalLoss(run) ==
    IF run.raised THEN run
    ELSE [run EXCEPT !.final_loss = build_final_loss(run.total_loss)]

\* a cast that rounds to the nearest whole number, halves away from zero
CastInt32Nearest(x) == Sign(x.n) * ((2 * Abs(x.n) + x.d) \div (2 * x.d))

\* tf.cast(x, dtype=tf.int32) of a finite float: truncation toward zero
CastInt32(x) == Sign(x.n) * (Abs(x.n) \div x.d)

\* position of the first largest entry of a non-empty sequence
RECURSIVE ArgMax(_)
ArgMax(v) ==
    IF Len(v) = 1 THEN 1
    ELSE LET m == ArgMax(SubSeq(v, 1, Len(v) - 1))
         IN  IF FLess(v[m], v[Len(v)]) THEN Len(v) ELSE m

\* the values of tf.nn.top_k(v, k), for 0 <= k <= Len(v): the k largest, sorted
RECURSIVE TopK(_, _)
TopK(v, k) ==
    IF k = 0 THEN <<>>
    ELSE LET m == ArgMax(v)
         IN  <<v[m]>> \o TopK(SubSeq(v, 1, m - 1) \o SubSeq(v, m + 1, Len(v)), k - 1)

\* the positions in v of the entries tf.nn.top_k(v, k) selects, in the order it
\* selects them: of equal entries the one at the lower position comes first
RECURSIVE TopKIndices(_, _, _)
TopKIndices(v, k, taken) ==
    IF k = 0 THEN <<>>
    ELSE LET rest == {i \in 1..Len(v) : i \notin taken}
             m == CHOOSE i \in rest :
                      \A j \in rest : ~FLess(v[i], v[j]) /\ (v[j] = v[i] => i <= j)
         IN  <<m>> \o TopKIndices(v, k - 1, taken \cup {m})

\* tf.nn.top_k raises InvalidArgumentError unless 0 <= k <= the last dimension
TopKRaises(v, k) == k < 0 \/ k > Len(v)

NoRun ==
    [strategy |-> "none", raised |-> FALSE, loc_loss_weight |-> I(0),
     gamma |-> 0, neg_samples_ratio |-> I(0), k |-> 0, picked |-> <<>>,
     picked_at |-> <<>>,
     conf_loss |-> I(0), pos_loss |-> I(0), neg_loss |-> I(0), loc |-> I(0),
     total_loss |-> I(0), final_loss |-> I(0)]

\* a focal loss that weighs the cross-entropy of the positive anchors alone
FocalGraphMasked(batch, loc_loss_weight, gamma) ==
    LET fl(r, a) == FMul(FMul(FPow(FSub(I(1), batch[r][a].conf), gamma), batch[r][a].ce),
                         batch[r][a].mask)
        focal_loss == FDiv(ReduceSum([r \in 1..Len(batch) |-> [a \in 1..Len(batch[r]) |-> fl(r, a)]]), num_positives(batch))
        total == FAdd(focal_loss, FMul(loc_loss_weight, loc_loss(batch)))
        total_loss == TfWhere(NoPositives(batch), I(0), total)
    IN  [NoRun EXCEPT !.strategy = "focal", !.loc_loss_weight = loc_loss_weight,
                      !.gamma = gamma, !.conf_loss = focal_loss,
                      !.loc = loc_loss(batch), !.total_loss = total_loss]

\* _build_focal_loss: self._focal_loss, self._loc_loss and the total loss
FocalGraph(batch, loc_loss_weight, gamma) ==
    LET fl(r, a) == FMul(FPow(FSub(I(1), batch[r][a].conf), gamma), batch[r][a].ce)
        focal_loss == FDiv(ReduceSum([r \in 1..Len(batch) |-> [a \in 1..Len(batch[r]) |-> fl(r, a)]]), num_positives(batch))
        total == FAdd(focal_loss, FMul(loc_loss_weight, loc_loss(batch)))
        total_loss == TfWhere(NoPositives(batch), I(0), total)
    IN  [NoRun EXCEPT !.strategy = "focal", !.loc_loss_weight = loc_loss_weight,
                      !.gamma = gamma, !.conf_loss = focal_loss,
                      !.loc = loc_loss(batch), !.total_loss = total_loss]

\* self._top_k_positive_confidence_loss / self._scan_positive_confidence_loss
positive_loss(batch) ==
    LET pl(r, a) == FMul(batch[r][a].ce, batch[r][a].mask)
    IN  FDiv(ReduceSum([r \in 1..Len(batch) |-> [a \in 1..Len(batch[r]) |-> pl(r, a)]]), num_positives(batch))

\* negative_loss_mask * self._ce_loss
negative_confidence_loss(batch) ==
    LET nl(r, a) == FMul(FSub(I(1), batch[r][a].mask), batch[r][a].ce)
    IN  [r \in 1..Len(batch) |-> [a \in 1..Len(batch[r]) |-> nl(r, a)]]

\* num_negatives_to_pick of _build_top_k_negative_loss
num_negatives_to_pick(batch, neg_samples_ratio) ==
    CastInt32(FMul(num_positives(batch), neg_samples_ratio))

\* _build_top_k_loss, up to the total loss; raised: tf.nn.top_k fails the run
TopKGraph(batch, loc_loss_weight, neg_samples_ratio) ==
    LET flat == Flatten(negative_confidence_loss(batch))
        k == num_negatives_to_pick(batch, neg_samples_ratio)
        run == [NoRun EXCEPT !.strategy = "top_k", !.loc_loss_weight = loc_loss_weight,
                             !.neg_samples_ratio = neg_samples_ratio, !.k = k]
    IN  IF TopKRaises(flat, k) THEN [run EXCEPT !.raised = TRUE]
        ELSE LET picked == TopK(flat, k)
                 neg == FDiv(FSumSeq(picked), I(k))
                 top_k_loss == FAdd(positive_loss(batch), neg)
                 total == FAdd(top_k_loss, FMul(loc_loss_weight, loc_loss(batch)))
                 total_loss == TfWhere(NoPositives(batch), I(0), total)
             IN  [run EXCEPT !.picked = picked, !.picked_at = TopKIndices(flat, k, {}),
                             !.pos_loss = positive_loss(batch),
                             !.neg_loss = neg, !.conf_loss = top_k_loss,
                             !.loc = loc_loss(batch), !.total_loss = total_loss]

\* num_negatives_per_batch of _build_scan_negative_loss
num_negatives_per_batch(batch, neg_samples_ratio) ==
    LET num_negatives == FMul(num_positives(batch), neg_samples_ratio)
    IN  CastInt32(FDiv(num_negatives, I(batch_sz)))

\* _build_scan_loss, up to the total loss; raised: tf.nn.top_k fails the run
ScanGraph(batch, loc_loss_weight, neg_samples_ratio) ==
    LET num_negatives == FMul(num_positives(batch), neg_samples_ratio)
        k == num_negatives_per_batch(batch, neg_samples_ratio)
        rows == negative_confidence_loss(batch)
        run == [NoRun EXCEPT !.strategy = "scan", !.loc_loss_weight = loc_loss_weight,
                             !.neg_samples_ratio = neg_samples_ratio, !.k = k]
    IN  IF \E r \in 1..Len(rows) : TopKRaises(rows[r], k) THEN [run EXCEPT !.raised = TRUE]
        ELSE LET picked == [r \in 1..Len(rows) |-> TopK(rows[r], k)]
                 neg_conf_losses == [r \in 1..Len(rows) |-> FSumSeq(picked[r])]
                 neg == FDiv(FSumSeq(neg_conf_losses), num_negatives)
                 confidence_loss == FAdd(positive_loss(batch), neg)
                 total == FAdd(confidence_loss, FMul(loc_loss_weight, loc_loss(batch)))
                 total_loss == TfWhere(NoPositives(batch), I(0), total)
             IN  [run EXCEPT !.picked = picked,
                             !.picked_at = [r \in 1..Len(rows) |-> TopKIndices(rows[r], k, {})],
                             !.pos_loss = positive_loss(batch),
                             !.neg_loss = neg, !.conf_loss = confidence_loss,
                             !.loc = loc_loss(batch), !.total_loss = total_loss]

\* one session.run of a strategy's losses on the batch fed
RunFocal ==
    \E w \in LossWeights : \E g \in Gammas :
        /\ loss_run.strategy = "none"
        /\ loss_run' = WithFinalLoss(FocalGraph(feed, w, g))
        /\ UNCHANGED <<anchorVars, dbox_call, reg_term, feed, trainVars, bal, prediction, data>>

RunTopK ==
    \E w \in LossWeights : \E ratio \in NegRatios :
        /\ loss_run.strategy = "none"
        /\ loss_run' = WithFinalLoss(TopKGraph(feed, w, ratio))
        /\ UNCHANGED <<anchorVars, dbox_call, reg_term, feed, trainVars, bal, prediction, data>>

RunScan ==
    \E w \in LossWeights : \E ratio \in NegRatios :
        /\ loss_run.strategy = "none"
        /\ loss_run' = WithFinalLoss(ScanGraph(feed, w, ratio))
        /\ UNCHANGED <<anchorVars, dbox_call, reg_term, feed, trainVars, bal, prediction, data>>

\* ------------------------------------------------------------------------
\* Training calls: _minimize_focal_loss / _minimize_top_k_loss /
\* __minimize_scan_loss and the loops of fit_focal / fit_top_k / fit_scan
\* ------------------------------------------------------------------------

Strategies == {"focal", "top_k", "scan"}

\* the optimizer objects and global_step arguments a caller passes
Optimizers == {"opt_a", "opt_b"}

GlobalSteps == {"None", "step"}

\* len(images) of the data passed to a training call
DataSizes == {0, 3, 4}

\* the largest number of epochs passed to a training call
MaxEpochs == 2

\* the calls of TrainSpec run at most one epoch over one batch
TrainEpochs == {0, 1}

TrainDataSizes == {2}

\* the batches the data of a training call is made of: one without a positive
\* anchor, one with one positive anchor, one with two
SampleFeeds ==
    LET pos1 == [mask |-> I(1), conf |-> Fin(1, 2), ce |-> I(1),
                 gt |-> <<Fin(1, 2), I(1), I(0), I(3)>>, off |-> <<I(0), I(0), I(2), I(3)>>]
        pos2 == [mask |-> I(1), conf |-> Fin(1, 4), ce |-> I(2),
                 gt |-> <<I(0), I(0), I(0), Fin(3, 2)>>, off |-> Zero4]
        neg1 == [mask |-> I(0), conf |-> Fin(1, 2), ce |-> I(1), gt |-> Zero4, off |-> Zero4]
        neg2 == [mask |-> I(0), conf |-> Fin(1, 4), ce |-> I(2), gt |-> Zero4, off |-> Zero4]
    IN  << << <<neg1, neg2>>, <<neg2, neg1>> >>,
           << <<pos1, neg1>>, <<neg2, neg1>> >>,
           << <<pos1, neg2>>, <<neg1, pos2>> >> >>

\* no optimizer bound yet: the attribute is not set
NoOptimizer == "unbound"

NoTrainOp == [loss |-> "none", optimizer |-> NoOptimizer, global_step |-> "None"]

\* the training state of a model just constructed (the *_is_build attributes
\* do not exist before _prepare_training_graph; they are read only after it)
NoTraining ==
    [set_for_training |-> FALSE,
     training_vars_are_ready |-> FALSE,
     graph_builds |-> 0,
     is_build |-> [s \in Strategies |-> FALSE],
     loss_builds |-> [s \in Strategies |-> 0],
     optimizer |-> [s \in Strategies |-> NoOptimizer],
     train_op |-> [s \in Strategies |-> NoTrainOp]]

\* MakiModel._setup_for_training
setup_for_training(t) == [t EXCEPT !.set_for_training = TRUE]

\* a training graph built without marking the training variables as ready
prepare_training_graph_unmarked(t) ==
    [t EXCEPT !.graph_builds = @ + 1,
              !.is_build = [s \in Strategies |-> FALSE]]

\* _prepare_training_graph: the placeholders and the localization loss; every
\* strategy's loss is marked as not built
prepare_training_graph(t) ==
    [t EXCEPT !.training_vars_are_ready = TRUE,
              !.graph_builds = @ + 1,
              !.is_build = [s \in Strategies |-> FALSE]]

\* a loss graph built without marking it as built
BuildLossUnflagged(t, s) == [t EXCEPT !.loss_builds[s] = @ + 1]

\* _setup_*_loss_inputs and _build_*_loss of strategy s
BuildLoss(t, s) == [t EXCEPT !.is_build[s] = TRUE, !.loss_builds[s] = @ + 1]

\* a minimization op made without the global_step passed
MinimizeWithoutStep(s, optimizer, global_step) ==
    [loss |-> s, optimizer |-> optimizer, global_step |-> "None"]

\* optimizer.minimize(self._final_*_loss, var_list, global_step)
Minimize(s, optimizer, global_step) ==
    [loss |-> s, optimizer |-> optimizer, global_step |-> global_step]

\* a binding kept in one attribute that the three strategies share
BindOptimizerShared(c, s, optimizer, global_step) ==
    LET op == Minimize(s, optimizer, global_step)
    IN  [c EXCEPT !.train.optimizer = [q \in Strategies |-> optimizer],
                  !.train.train_op[s] = op,
                  !.made = Append(@, op),
                  !.inited = Append(@, optimizer)]

\* bind the optimizer, create its minimization op and run the initializer of
\* the optimizer's variables; c is the call so far
BindOptimizer(c, s, optimizer, global_step) ==
    LET op == Minimize(s, optimizer, global_step)
    IN  [c EXCEPT !.train.optimizer[s] = optimizer,
                  !.train.train_op[s] = op,
                  !.made = Append(@, op),
                  !.inited = Append(@, optimizer)]

\* a test that never sees a new optimizer
NewOptimizerNever(t, s, optimizer) == FALSE

\* if self._*_optimizer != optimizer
NewOptimizer(t, s, optimizer) == t.optimizer[s] # optimizer

\* the body the three _minimize_*_loss methods share, for strategy s
MinimizeLoss(t, s, optimizer, global_step) ==
    LET c0 == [train |-> t, made |-> <<>>, inited |-> <<>>, loss_built |-> FALSE]
        c1 == IF ~c0.train.set_for_training
              THEN [c0 EXCEPT !.train = setup_for_training(@)] ELSE c0
        c2 == IF ~c1.train.training_vars_are_ready
              THEN [c1 EXCEPT !.train = prepare_training_graph(@)] ELSE c1
        c3 == IF ~c2.train.is_build[s]
              THEN BindOptimizer([c2 EXCEPT !.train = BuildLoss(@, s), !.loss_built = TRUE],
                                 s, optimizer, global_step)
              ELSE c2
        c4 == IF NewOptimizer(c3.train, s, optimizer)
              THEN BindOptimizer(c3, s, optimizer, global_step)
              ELSE c3
    IN  [train |-> c4.train, made |-> c4.made, inited |-> c4.inited,
         loss_built |-> c4.loss_built, train_op |-> c4.train.train_op[s]]

minimize_focal_loss(t, optimizer, global_step) ==
    MinimizeLoss(t, "focal", optimizer, global_step)

minimize_top_k_loss(t, optimizer, global_step) ==
    MinimizeLoss(t, "top_k", optimizer, global_step)

minimize_scan_loss(t, optimizer, global_step) ==
    MinimizeLoss(t, "scan", optimizer, global_step)

\* the lists a fit_* call fills, in the order it appends to them
ListNames(s) ==
    IF s = "focal" THEN <<"loc losses", "focal losses", "total losses">>
    ELSE <<"loc losses", "negative losses", "positive losses", "total losses">>

\* the losses of one batch with the default loc_loss_weight=1.0, gamma=2.0,
\* neg_samples_ratio=3.0
SampleRuns ==
    [focal |-> <<FocalGraph(SampleFeeds[1], I(1), 2), FocalGraph(SampleFeeds[2], I(1), 2),
                 FocalGraph(SampleFeeds[3], I(1), 2)>>,
     top_k |-> <<TopKGraph(SampleFeeds[1], I(1), I(3)), TopKGraph(SampleFeeds[2], I(1), I(3)),
                 TopKGraph(SampleFeeds[3], I(1), I(3))>>,
     scan  |-> <<ScanGraph(SampleFeeds[1], I(1), I(3)), ScanGraph(SampleFeeds[2], I(1), I(3)),
                 ScanGraph(SampleFeeds[3], I(1), I(3))>>]

\* what session.run returns for the losses fetched, in the order of the lists
Fetched(s, run) ==
    IF s = "focal" THEN <<run.loc, run.conf_loss, run.final_loss>>
    ELSE <<run.loc, run.neg_loss, run.pos_loss, run.final_loss>>

\* loss = 0.1*batch_loss + 0.9*loss
Decay(batch_loss, loss) == FAdd(FMul(Fin(1, 10), batch_loss), FMul(Fin(9, 10), loss))

ZeroLosses(s) == [l \in 1..Len(ListNames(s)) |-> I(0)]

NoFit ==
    [pc |-> "idle", strategy |-> "none", optimizer |-> NoOptimizer,
     global_step |-> "None", epochs |-> 0, n_batches |-> 0, i |-> 0, j |-> 0,
     losses |-> <<>>, lists |-> <<>>, outcomes |-> <<>>, skipped |-> 0,
     train_op |-> NoTrainOp, made |-> <<>>, inited |-> <<>>, loss_built |-> FALSE,
     stop |-> "none"]

\* fit_*: the call up to the epoch loop
FitCall(s, optimizer, global_step, epochs, n_images) ==
    /\ fit.pc = "idle"
    /\ LET c == IF s = "focal" THEN minimize_focal_loss(train, optimizer, global_step)
                ELSE IF s = "top_k" THEN minimize_top_k_loss(train, optimizer, global_step)
                ELSE minimize_scan_loss(train, optimizer, global_step)
       IN  /\ train' = c.train
           /\ fit' = [pc |-> "epoch", strategy |-> s, optimizer |-> optimizer,
                      global_step |-> global_step, epochs |-> epochs,
                      n_batches |-> n_images \div batch_sz, i |-> 0, j |-> 0,
                      losses |-> ZeroLosses(s),
                      lists |-> [l \in 1..Len(ListNames(s)) |-> <<>>],
                      outcomes |-> <<>>, skipped |-> 0,
                      train_op |-> c.train_op, made |-> c.made, inited |-> c.inited,
                      loss_built |-> c.loss_built, stop |-> "running"]
    /\ UNCHANGED <<anchorVars, dbox_call, lossVars, bal, prediction, data>>

\* the finally clause: return the lists, whatever is in flight
Return(f, why) == [f EXCEPT !.pc = "returned", !.stop = why]

\* an epoch that starts with the running losses of the epoch before
StartEpochKeepsLosses ==
    /\ fit.pc = "epoch" /\ fit.i < fit.epochs
    /\ fit' = [fit EXCEPT !.pc = "batch", !.j = 0, !.outcomes = <<>>]
    /\ UNCHANGED <<anchorVars, dbox_call, lossVars, train, bal, prediction, data>>

\* an epoch starts: shuffle, the running losses reset, the batch iterator
StartEpoch ==
    /\ fit.pc = "epoch" /\ fit.i < fit.epochs
    /\ fit' = [fit EXCEPT !.pc = "batch", !.j = 0, !.losses = ZeroLosses(fit.strategy),
                          !.outcomes = <<>>]
    /\ UNCHANGED <<anchorVars, dbox_call, lossVars, train, bal, prediction, data>>

\* shuffle raises (arrays of inconsistent length), or an interrupt arrives in
\* it: outside the epoch's try, so the finally clause returns
ShuffleRaises ==
    /\ fit.pc = "epoch" /\ fit.i < fit.epochs
    /\ \E why \in {"shuffle", "interrupt"} : fit' = Return(fit, why)
    /\ UNCHANGED <<anchorVars, dbox_call, lossVars, train, bal, prediction, data>>

\* a handler that leaves the batch loop instead of continuing it
BatchFailedBreak(f) ==
    [f EXCEPT !.j = f.n_batches,
              !.outcomes = Append(@, [kind |-> "raised", fetched |-> ZeroLosses(f.strategy)])]

\* except Exception: print(ex); continue
BatchFailed(f) ==
    [f EXCEPT !.j = @ + 1,
              !.outcomes = Append(@, [kind |-> "raised", fetched |-> ZeroLosses(f.strategy)])]

\* the running losses after a batch that ran
BatchDone(f, fetched) ==
    [f EXCEPT !.j = @ + 1,
              !.losses = [l \in 1..Len(@) |-> Decay(fetched[l], @[l])],
              !.outcomes = Append(@, [kind |-> "ok", fetched |-> fetched])]

\* one batch: session.run of the losses and the train op on a batch of the data
RunBatch ==
    /\ fit.pc = "batch" /\ fit.j < fit.n_batches
    /\ \E b \in 1..Len(SampleFeeds) :
         LET run == WithFinalLoss(SampleRuns[fit.strategy][b])
         IN  fit' = IF run.raised THEN BatchFailed(fit)
                    ELSE BatchDone(fit, Fetched(fit.strategy, run))
    /\ UNCHANGED <<anchorVars, dbox_call, lossVars, train, bal, prediction, data>>

\* session.run raises an Exception for another reason (a batch of the wrong
\* shape, resources exhausted)
BatchRaises ==
    /\ fit.pc = "batch" /\ fit.j < fit.n_batches
    /\ fit' = BatchFailed(fit)
    /\ UNCHANGED <<anchorVars, dbox_call, lossVars, train, bal, prediction, data>>

\* a KeyboardInterrupt during a batch: no except Exception catches it, the
\* finally clause returns
BatchInterrupted ==
    /\ fit.pc = "batch" /\ fit.j < fit.n_batches
    /\ fit' = Return(fit, "interrupt")
    /\ UNCHANGED <<anchorVars, dbox_call, lossVars, train, bal, prediction, data>>

\* an epoch handler that ends the call
EpochRaisesReturns ==
    /\ fit.pc = "batch" /\ fit.j < fit.n_batches
    /\ fit' = Return([fit EXCEPT !.skipped = @ + 1], "epoch")
    /\ UNCHANGED <<anchorVars, dbox_call, lossVars, train, bal, prediction, data>>

\* an Exception in the batch loop outside the try around session.run (slicing
\* the data, the handler's print): the epoch's except clause, then the next epoch
EpochRaises ==
    /\ fit.pc = "batch" /\ fit.j < fit.n_batches
    /\ fit' = [fit EXCEPT !.pc = "epoch", !.i = @ + 1, !.skipped = @ + 1]
    /\ UNCHANGED <<anchorVars, dbox_call, lossVars, train, bal, prediction, data>>

\* appends that reach the first list only
AppendedFirstOnly(f, m) ==
    [l \in 1..Len(f.lists) |->
        IF l <= m /\ l = 1 THEN Append(f.lists[l], f.losses[l]) ELSE f.lists[l]]

\* the first m lists after their append of the epoch's running losses
Appended(f, m) ==
    [l \in 1..Len(f.lists) |->
        IF l <= m THEN Append(f.lists[l], f.losses[l]) ELSE f.lists[l]]

\* the batch loop is over: the appends of the epoch
AppendEpoch ==
    /\ fit.pc = "batch" /\ fit.j = fit.n_batches
    /\ fit' = [fit EXCEPT !.pc = "epoch", !.i = @ + 1,
                          !.lists = Appended(fit, Len(fit.lists))]
    /\ UNCHANGED <<anchorVars, dbox_call, lossVars, train, bal, prediction, data>>

\* a KeyboardInterrupt between the appends, after m of them
AppendInterrupted ==
    /\ fit.pc = "batch" /\ fit.j = fit.n_batches
    /\ \E m \in 0..(Len(fit.lists) - 1) :
         fit' = Return([fit EXCEPT !.lists = Appended(fit, m)], "interrupt")
    /\ UNCHANGED <<anchorVars, dbox_call, lossVars, train, bal, prediction, data>>

\* range(epochs) is exhausted: the finally clause returns the lists
FitReturn ==
    /\ fit.pc = "epoch" /\ fit.i = fit.epochs
    /\ fit' = Return(fit, "done")
    /\ UNCHANGED <<anchorVars, dbox_call, lossVars, train, bal, prediction, data>>

\* the caller has the returned lists; the model is ready for the next call
ResultTaken ==
    /\ fit.pc = "returned"
    /\ fit' = NoFit
    /\ UNCHANGED <<anchorVars, dbox_call, lossVars, train, bal, prediction, data>>

FitLoop ==
    \/ StartEpoch \/ ShuffleRaises \/ RunBatch \/ BatchRaises \/ BatchInterrupted
    \/ EpochRaises \/ AppendEpoch \/ AppendInterrupted \/ FitReturn \/ ResultTaken

\* ------------------------------------------------------------------------
\* The data of a training call: shuffle and the batch slices of the epoch
\* loop of fit_focal, fit_top_k and fit_scan
\* ------------------------------------------------------------------------

\* len(images) of a training call
SampleCounts == {3, 4, 5}

\* epochs of a training call whose batches are followed
BatchingEpochs == {1, 2}

NoData ==
    [pc |-> "idle", epochs |-> 0, n_batches |-> 0, i |-> 0, j |-> 0,
     images |-> <<>>, loc_masks |-> <<>>, labels |-> <<>>, gt_locs |-> <<>>,
     batches |-> <<>>]

\* a shuffle that permutes the images alone
shuffle_images(d, perm) ==
    [d EXCEPT !.images = [k \in 1..Len(@) |-> @[perm[k]]]]

\* sklearn.utils.shuffle(images, loc_masks, labels, gt_locs): one permutation
\* of the indices, applied to every array
shuffle(d, perm) ==
    [d EXCEPT !.images    = [k \in 1..Len(@) |-> @[perm[k]]],
              !.loc_masks = [k \in 1..Len(@) |-> @[perm[k]]],
              !.labels    = [k \in 1..Len(@) |-> @[perm[k]]],
              !.gt_locs   = [k \in 1..Len(@) |-> @[perm[k]]]]

\* arr[j * batch_sz:(j + 1) * batch_sz]: a slice stops at the end of the array
Slice(arr, j) ==
    LET stop == IF (j + 1) * batch_sz < Len(arr) THEN (j + 1) * batch_sz ELSE Len(arr)
    IN  SubSeq(arr, j * batch_sz + 1, stop)

\* the call up to the epoch loop; sample k of the data is k in each array
FitData ==
    /\ data.pc = "idle"
    /\ \E n \in SampleCounts : \E epochs \in BatchingEpochs :
         data' = [NoData EXCEPT !.pc = "epoch", !.epochs = epochs,
                                !.n_batches = n \div batch_sz,
                                !.images = [k \in 1..n |-> k],
                                !.loc_masks = [k \in 1..n |-> k],
                                !.labels = [k \in 1..n |-> k],
                                !.gt_locs = [k \in 1..n |-> k]]
    /\ UNCHANGED <<anchorVars, dbox_call, lossVars, trainVars, bal, prediction>>

\* an epoch starts: the arrays are rebound to their shuffled copies
ShuffleData ==
    /\ data.pc = "epoch" /\ data.i < data.epochs
    /\ \E perm \in Permutations(1..Len(data.images)) :
         data' = [shuffle(data, perm) EXCEPT !.pc = "batch", !.j = 0, !.batches = <<>>]
    /\ UNCHANGED <<anchorVars, dbox_call, lossVars, trainVars, bal, prediction>>

\* batch j of the epoch: the four slices
TakeBatch ==
    /\ data.pc = "batch" /\ data.j < data.n_batches
    /\ data' = [data EXCEPT
                  !.j = @ + 1,
                  !.batches = Append(@, [img_batch      |-> Slice(data.images, data.j),
                                         loc_mask_batch |-> Slice(data.loc_masks, data.j),
                                         labels_batch   |-> Slice(data.labels, data.j),
                                         gt_locs_batch  |-> Slice(data.gt_locs, data.j)])]
    /\ UNCHANGED <<anchorVars, dbox_call, lossVars, trainVars, bal, prediction>>

\* range(n_batches) is exhausted: the next epoch
EndBatches ==
    /\ data.pc = "batch" /\ data.j = data.n_batches
    /\ data' = [data EXCEPT !.pc = "epoch", !.i = @ + 1]
    /\ UNCHANGED <<anchorVars, dbox_call, lossVars, trainVars, bal, prediction>>

\* range(epochs) is exhausted: the call returns
DataReturn ==
    /\ data.pc = "epoch" /\ data.i = data.epochs
    /\ data' = [data EXCEPT !.pc = "returned"]
    /\ UNCHANGED <<anchorVars, dbox_call, lossVars, trainVars, bal, prediction>>

\* ------------------------------------------------------------------------
\* GDBalancer (augmentation/segmentation/balancing/gd_balancer.py): reset,
\* _build_objective, _build_train_op, set_session, optimize
\* ------------------------------------------------------------------------

\* the objective names a caller passes: the two the balancer knows and another
ObjectiveNames == {"alpha", "geo", "beta"}

\* the initial cardinalities a caller passes
InitialCs == {<<5, 5>>, <<10, 20>>}

\* the optimizer objects a caller passes to optimize
BalancerOptimizers == {"opt_a", "opt_b"}

\* iterations of an optimize call
IterationCounts == {0, 1, 2}

\* the largest number of calls made on one balancer, its construction included
MaxBalancerCalls == 4

\* an attribute that has not been set
Unset == [kind |-> "unset", of |-> 0]

NoBalancerOp == [optimizer |-> "None", objective |-> Unset]

NoBalancerCall == [op |-> "none", objective |-> "none", optimizer |-> "None",
                   reported |-> FALSE, raised |-> FALSE, rebuilt |-> FALSE]

\* an object before __init__ has set anything
NoBalancer ==
    [calls |-> 0,
     cardinalities |-> [id |-> 0, initial_c |-> <<>>],
     scaled_hcvgs |-> [of |-> 0],
     objective |-> Unset,
     optimizer |-> "None",
     train_op |-> NoBalancerOp,
     sess |-> FALSE,
     initialized |-> 0,
     last |-> NoBalancerCall]

\* _build_objective(objective): b already holds the new scaled_hcvgs
build_objective(b, objective) ==
    IF objective \in {"alpha", "geo"}
    THEN [b EXCEPT !.objective = [kind |-> objective, of |-> b.scaled_hcvgs.of],
                   !.last.reported = FALSE]
    ELSE [b EXCEPT !.last.reported = TRUE]

\* reset(initial_c, objective): a new cardinalities variable (named by the
\* number of the call that made it), its scaled vectors, the objective, and
\* the optimizer binding cleared
reset(b, initial_c, objective) ==
    LET c0 == [b EXCEPT !.calls = @ + 1,
                        !.last = [NoBalancerCall EXCEPT !.op = "reset", !.objective = objective]]
        c1 == [c0 EXCEPT !.cardinalities = [id |-> c0.calls, initial_c |-> initial_c]]
        c2 == [c1 EXCEPT !.scaled_hcvgs = [of |-> c1.cardinalities.id]]
        c3 == build_objective(c2, objective)
    IN  [c3 EXCEPT !.optimizer = "None"]

\* set_session(sess): the session, and the initializer of the cardinalities
set_session(b) ==
    [b EXCEPT !.calls = @ + 1,
              !.last = [NoBalancerCall EXCEPT !.op = "set_session"],
              !.sess = TRUE,
              !.initialized = b.cardinalities.id]

\* _build_train_op(optimizer); reading self.objective, self.sess or
\* self.train_op before it is set raises AttributeError
build_train_op(b, optimizer) ==
    IF b.optimizer # optimizer
    THEN IF b.objective = Unset
         THEN [b EXCEPT !.optimizer = optimizer, !.last.raised = TRUE]
         ELSE [b EXCEPT !.optimizer = optimizer,
                        !.train_op = [optimizer |-> optimizer, objective |-> b.objective],
                        !.last.rebuilt = TRUE,
                        !.last.raised = ~b.sess]
    ELSE IF b.train_op = NoBalancerOp THEN [b EXCEPT !.last.raised = TRUE]
    ELSE b

\* optimize(pi_vec, optimizer, iterations): the first iteration builds or
\* fetches the train op and runs it with the objective; the run fails without
\* a session and when the cardinalities the graph reads have not been
\* initialized in the session; later iterations fetch the cached op
optimize(b, optimizer, iterations) ==
    LET c0 == [b EXCEPT !.calls = @ + 1,
                        !.last = [NoBalancerCall EXCEPT !.op = "optimize",
                                                        !.optimizer = optimizer]]
        c1 == build_train_op(c0, optimizer)
    IN  IF iterations = 0 THEN c0
        ELSE IF c1.last.raised THEN c1
        ELSE IF ~c1.sess
                  \/ c1.train_op.objective.of # c1.initialized
                  \/ c1.objective.of # c1.initialized
             THEN [c1 EXCEPT !.last.raised = TRUE]
        ELSE c1

Reset ==
    /\ bal.calls < MaxBalancerCalls
    /\ \E initial_c \in InitialCs : \E objective \in ObjectiveNames :
         bal' = reset(bal, initial_c, objective)
    /\ UNCHANGED <<anchorVars, dbox_call, lossVars, trainVars, prediction, data>>

SetSession ==
    /\ bal.calls < MaxBalancerCalls
    /\ bal' = set_session(bal)
    /\ UNCHANGED <<anchorVars, dbox_call, lossVars, trainVars, prediction, data>>

Optimize ==
    /\ bal.calls < MaxBalancerCalls
    /\ \E optimizer \in BalancerOptimizers : \E iterations \in IterationCounts :
         bal' = optimize(bal, optimizer, iterations)
    /\ UNCHANGED <<anchorVars, dbox_call, lossVars, trainVars, prediction, data>>

\* ------------------------------------------------------------------------
\* Specifications
\* ------------------------------------------------------------------------

NoFeed == [r \in 1..batch_sz |-> <<>>]

\* the model of LossBlocks, and a batch fed to its training placeholders
LossInit ==
    /\ generate_default_boxes(LossBlocks, LossImage)
    /\ dbox_call = NoCall
    /\ reg_term \in RegTerms
    /\ feed \in [1..batch_sz -> [1..total_predictions -> AnchorCases]]
    /\ loss_run = NoRun
    /\ train = NoTraining
    /\ fit = NoFit
    /\ bal = NoBalancer
    /\ prediction = NoPrediction
    /\ data = NoData

LossNext == RunFocal \/ RunTopK \/ RunScan

LossSpec == LossInit /\ [][LossNext]_vars

\* a model just constructed from its detector blocks, and its get_dbox calls
AnchorInit ==
    /\ \E blocks \in DCLists : \E shape \in ImageSizes :
           generate_default_boxes(blocks, shape)
    /\ dbox_call = NoCall
    /\ reg_term = I(0)
    /\ feed = NoFeed
    /\ loss_run = NoRun
    /\ train = NoTraining
    /\ fit = NoFit
    /\ bal = NoBalancer
    /\ prediction = NoPrediction
    /\ data = NoData

AnchorNext == GetDbox

AnchorSpec == AnchorInit /\ [][AnchorNext]_vars

\* the model of LossBlocks before its first training call
TrainInit ==
    /\ generate_default_boxes(LossBlocks, LossImage)
    /\ dbox_call = NoCall
    /\ reg_term = I(0)
    /\ feed = NoFeed
    /\ loss_run = NoRun
    /\ train = NoTraining
    /\ fit = NoFit
    /\ bal = NoBalancer
    /\ prediction = NoPrediction
    /\ data = NoData

\* training calls of every strategy with every optimizer and global_step,
\* each over a short loop
TrainCall ==
    \E s \in Strategies : \E optimizer \in Optimizers : \E global_step \in GlobalSteps :
      \E epochs \in TrainEpochs : \E n_images \in TrainDataSizes :
        FitCall(s, optimizer, global_step, epochs, n_images)

TrainNext == TrainCall \/ FitLoop

TrainSpec == TrainInit /\ [][TrainNext]_vars

\* training calls of every strategy with one optimizer, over loops of up to
\* MaxEpochs epochs
EpochsCall ==
    \E s \in Strategies : \E epochs \in 0..MaxEpochs : \E n_images \in DataSizes :
        FitCall(s, "opt_a", "None", epochs, n_images)

FitNext == EpochsCall \/ FitLoop

FitSpec == TrainInit /\ [][FitNext]_vars

\* a model with as many default boxes as an element of the sample batches has
\* anchors, just constructed
ModelInit ==
    /\ \E blocks \in DCLists : \E shape \in ImageSizes :
           /\ Len(GenerateBoxesWH(blocks, shape)) = Len(SampleFeeds[1][1])
           /\ generate_default_boxes(blocks, shape)
    /\ dbox_call = NoCall
    /\ reg_term = I(0)
    /\ feed = NoFeed
    /\ loss_run = NoRun
    /\ train = NoTraining
    /\ fit = NoFit
    /\ bal = NoBalancer
    /\ prediction = NoPrediction
    /\ data = NoData

\* one-epoch training calls of every strategy over one batch
ModelCall ==
    \E s \in Strategies : FitCall(s, "opt_a", "None", 1, 2)

\* get_dbox, predict and training calls in any order
ModelNext == GetDbox \/ Predict \/ ModelCall \/ FitLoop

ModelSpec == ModelInit /\ [][ModelNext]_vars

\* a GDBalancer just constructed, next to a model that is not used
BalancerInit ==
    /\ generate_default_boxes(LossBlocks, LossImage)
    /\ dbox_call = NoCall
    /\ reg_term = I(0)
    /\ feed = NoFeed
    /\ loss_run = NoRun
    /\ train = NoTraining
    /\ fit = NoFit
    /\ \E initial_c \in InitialCs : \E objective \in ObjectiveNames :
         bal = reset(NoBalancer, initial_c, objective)
    /\ prediction = NoPrediction
    /\ data = NoData

BalancerNext == Reset \/ SetSession \/ Optimize

BalancerSpec == BalancerInit /\ [][BalancerNext]_vars

\* the batches of training calls over arrays of SampleCounts samples
BatchInit ==
    /\ generate_default_boxes(LossBlocks, LossImage)
    /\ dbox_call = NoCall
    /\ reg_term = I(0)
    /\ feed = NoFeed
    /\ loss_run = NoRun
    /\ train = NoTraining
    /\ fit = NoFit
    /\ bal = NoBalancer
    /\ prediction = NoPrediction
    /\ data = NoData

BatchNext == FitData \/ ShuffleData \/ TakeBatch \/ EndBatches \/ DataReturn

BatchSpec == BatchInit /\ [][BatchNext]_vars

\* ------------------------------------------------------------------------
\* Properties of the default boxes
\* ------------------------------------------------------------------------

\* number of boxes of the blocks before block b (1-based), in block-list order
RECURSIVE BlockBase(_)
BlockBase(b) ==
    IF b = 1 THEN 0
    ELSE BlockBase(b - 1)
         + dcs[b - 1].fmap[1] * dcs[b - 1].fmap[2] * Len(dcs[b - 1].dboxes)

\* the center-form box of cell (column col, row row) and shape k of block b
CenterBoxOf(b, k, col, row) ==
    LET W  == input_shape[1]
        H  == input_shape[2]
        fw == dcs[b].fmap[1]
        fh == dcs[b].fmap[2]
    IN  << Fin((2 * col + 1) * W, 2 * fw),
           Fin((2 * row + 1) * H, 2 * fh),
           FMul(Fin(W, fw), dcs[b].dboxes[k][1]),
           FMul(Fin(H, fh), dcs[b].dboxes[k][2]) >>

\* the same box in corner form, clipped to the image
AnchorOf(b, k, col, row) ==
    LET c == CenterBoxOf(b, k, col, row)
        W == I(input_shape[1])
        H == I(input_shape[2])
        x1 == FSub(c[1], FDiv(c[3], I(2)))
        y1 == FSub(c[2], FDiv(c[4], I(2)))
        x2 == FAdd(c[1], FDiv(c[3], I(2)))
        y2 == FAdd(c[2], FDiv(c[4], I(2)))
    IN  << IF FLess(x1, I(0)) THEN I(0) ELSE x1,
           IF FLess(y1, I(0)) THEN I(0) ELSE y1,
           IF FLess(W, x2) THEN W ELSE x2,
           IF FLess(H, y2) THEN H ELSE y2 >>

\* C1: get_dbox(b, s, x, y) with valid arguments returns the clipped corner
\* box the generator produced for cell (column x, row y) with shape s of
\* block b.
C1_RoundTrip ==
    dbox_call.status # "none" =>
        /\ dbox_call.status = "ok"
        /\ dbox_call.box = AnchorOf(dbox_call.args[1] + 1, dbox_call.args[2] + 1,
                                    dbox_call.args[3], dbox_call.args[4])

\* C2: the number of anchors (total_predictions, the length of default_boxes
\* and of default_boxes_wh) is the sum over the blocks of fw * fh * num_shapes.
C2_AnchorCount ==
    /\ total_predictions = BlockBase(Len(dcs) + 1)
    /\ Len(default_boxes) = BlockBase(Len(dcs) + 1)
    /\ Len(default_boxes_wh) = BlockBase(Len(dcs) + 1)

\* two blocks that differ in feature map and in number of shapes: 3*2*1 + 1*2*2
C2_Witness ==
    /\ Len(dcs) = 2
    /\ dcs[1].fmap = <<3, 2>> /\ Len(dcs[1].dboxes) = 1
    /\ dcs[2].fmap = <<1, 2>> /\ Len(dcs[2].dboxes) = 2
    /\ total_predictions = 10

C4_BoxesInImage ==
    \A p \in 1..Len(default_boxes) :
        LET box == default_boxes[p]
        IN  /\ FLe(I(0), box[1]) /\ FLe(box[1], box[3]) /\ FLe(box[3], I(input_shape[1]))
            /\ FLe(I(0), box[2]) /\ FLe(box[2], box[4]) /\ FLe(box[4], I(input_shape[2]))

\* ------------------------------------------------------------------------
\* Properties of the losses
\* ------------------------------------------------------------------------

\* the anchors of the batch fed whose positive mask is 1
PositiveAnchors ==
    {ra \in (1..batch_sz) \X (1..total_predictions) : feed[ra[1]][ra[2]].mask = I(1)}

Ran == loss_run.strategy # "none"

NegProduct ==
    LET ratio == loss_run.neg_samples_ratio
    IN  [n |-> Cardinality(PositiveAnchors) * ratio.n, d |-> ratio.d]

\* round to nearest, halves to even (Python's round, tf.round)
RoundHalfEven(n, d) ==
    LET fl == n \div d
        twice == 2 * (n - fl * d)
    IN  IF twice < d THEN fl
        ELSE IF twice > d THEN fl + 1
        ELSE IF fl % 2 = 0 THEN fl ELSE fl + 1

\* C10 as stated: the number k of negative losses the top-k strategy selects
\* is round(num_positives * neg_ratio).
C10_KIsRounded ==
    loss_run.strategy = "top_k" => loss_run.k = RoundHalfEven(NegProduct.n, NegProduct.d)

\* C10 (amended): k is num_positives * neg_ratio truncated toward zero: the
\* whole number with k <= product < k + 1 for a product >= 0, and
\* k - 1 < product <= k for a product < 0.
C10_KIsTruncated ==
    loss_run.strategy = "top_k" =>
        LET q == NegProduct
            k == loss_run.k
        IN  IF q.n >= 0
            THEN k * q.d <= q.n /\ q.n < (k + 1) * q.d
            ELSE (k - 1) * q.d < q.n /\ q.n <= k * q.d

\* one positive anchor and ratio 1.5: the product 1.5 gives k = 1
C10_Witness ==
    /\ loss_run.strategy = "top_k"
    /\ ~loss_run.raised
    /\ Cardinality(PositiveAnchors) = 1
    /\ loss_run.neg_samples_ratio = Fin(3, 2)
    /\ loss_run.k = 1
    /\ Len(loss_run.picked) = 1

\* ------------------------------------------------------------------------
\* Properties of the training calls
\* ------------------------------------------------------------------------

\* the step of a training call from its entry to the start of its epoch loop
Called == fit.pc = "idle" /\ fit'.pc = "epoch"

\* the minimization op a call's arguments make
CallOp == Minimize(fit'.strategy, fit'.optimizer, fit'.global_step)

\* C6: a training call creates a minimization op if and only if the optimizer
\* passed differs from the one bound to the strategy; with the bound optimizer
\* it returns the cached op, creates no op and initializes no variables.
C6_RebuildIffNewOptimizer ==
    [][Called =>
        IF train.optimizer[fit'.strategy] # fit'.optimizer
        THEN /\ fit'.made = <<CallOp>>
             /\ fit'.inited = <<fit'.optimizer>>
             /\ fit'.train_op = CallOp
             /\ train'.train_op[fit'.strategy] = CallOp
             /\ train'.optimizer[fit'.strategy] = fit'.optimizer
        ELSE /\ fit'.made = <<>>
             /\ fit'.inited = <<>>
             /\ fit'.train_op = train.train_op[fit'.strategy]
             /\ train'.train_op = train.train_op
             /\ train'.optimizer = train.optimizer]_vars

\* a call with the bound optimizer and another global_step: the cached op,
\* made with the global_step of the earlier call, is returned
C6_Witness ==
    /\ fit.pc = "epoch"
    /\ fit.made = <<>> /\ fit.inited = <<>>
    /\ fit.train_op.optimizer = fit.optimizer
    /\ fit.train_op.global_step # fit.global_step
    /\ train.train_op[fit.strategy] = fit.train_op

\* C7: the first training call of a strategy builds its loss graph and exactly
\* one minimization op bound to the optimizer passed; a later call with another
\* optimizer makes one new minimization op over the same loss graph and
\* initializes the new optimizer's variables; no later call builds the loss
\* graph or the placeholders again.
C7_LossGraphBuiltOnce ==
    [][Called =>
        /\ train'.graph_builds = 1
        /\ train.loss_builds[fit'.strategy] = 0 =>
             /\ train'.loss_builds[fit'.strategy] = 1
             /\ fit'.loss_built
             /\ fit'.made = <<CallOp>>
             /\ train'.optimizer[fit'.strategy] = fit'.optimizer
             /\ train'.train_op[fit'.strategy] = CallOp
        /\ train.loss_builds[fit'.strategy] > 0 =>
             /\ train'.loss_builds = train.loss_builds
             /\ train'.graph_builds = train.graph_builds
             /\ ~fit'.loss_built
             /\ train.optimizer[fit'.strategy] # fit'.optimizer =>
                  /\ fit'.made = <<CallOp>>
                  /\ fit'.inited = <<fit'.optimizer>>
                  /\ train'.train_op[fit'.strategy] = CallOp
        /\ \A s \in Strategies \ {fit'.strategy} :
             train'.loss_builds[s] = train.loss_builds[s]]_vars

\* a call that found the loss graph of its strategy built and made a new op
\* for another optimizer
C7_Witness ==
    /\ fit.pc = "epoch"
    /\ ~fit.loss_built
    /\ fit.made = <<Minimize(fit.strategy, fit.optimizer, fit.global_step)>>
    /\ fit.inited = <<fit.optimizer>>
    /\ train.loss_builds[fit.strategy] = 1
    /\ train.graph_builds = 1

\* a step of the batch loop in which the backend run raised an exception
BatchRaised ==
    /\ fit.pc = "batch" /\ fit'.pc = "batch"
    /\ Len(fit'.outcomes) = Len(fit.outcomes) + 1
    /\ fit'.outcomes[Len(fit'.outcomes)].kind = "raised"

\* the step from the end of an epoch's batch loop to the next epoch
EpochAppended ==
    /\ fit.pc = "batch" /\ fit'.pc = "epoch" /\ fit'.skipped = fit.skipped

\* C8: when the backend run of batch j raises an exception the call goes on:
\* the running losses of the epoch and the lists are as before the batch, the
\* next batch is batch j+1 of the same epoch, every batch of the epoch has
\* been attempted when the epoch ends, and the epoch appends its entry to
\* every list.
C8_FailedBatchSkipped ==
    /\ [][BatchRaised =>
            /\ fit'.losses = fit.losses
            /\ fit'.lists = fit.lists
            /\ fit'.j = fit.j + 1
            /\ fit'.i = fit.i
            /\ fit'.stop = "running"]_vars
    /\ [](fit.pc = "batch" => Len(fit.outcomes) = fit.j /\ fit.j <= fit.n_batches)
    /\ [][EpochAppended =>
            /\ Len(fit.outcomes) = fit.n_batches
            /\ \A l \in 1..Len(fit.lists) :
                 fit'.lists[l] = Append(fit.lists[l], fit.losses[l])]_vars

\* a top-k epoch of two batches whose first batch raised and whose second ran:
\* the epoch's entry is the running loss after the second batch alone
C8_Witness ==
    /\ fit.strategy = "top_k"
    /\ fit.pc = "epoch" /\ fit.i = 1 /\ fit.n_batches = 2
    /\ Len(fit.outcomes) = 2
    /\ fit.outcomes[1].kind = "raised" /\ fit.outcomes[2].kind = "ok"
    /\ \A l \in 1..Len(fit.lists) :
         fit.lists[l] = <<Decay(fit.outcomes[2].fetched[l], I(0))>>

\* C9 as stated: a call with epochs = E returns lists of length E each.
C9_ListsHaveEpochsEntries ==
    fit.pc = "returned" =>
        \A l \in 1..Len(fit.lists) : Len(fit.lists[l]) = fit.epochs

\* C9 (amended): every returned list holds one value per epoch whose batch
\* loop ran to its end, at most E of them; the lists have E entries each when
\* the call ran through all its epochs and no exception left a batch loop; the
\* lists of one result have the same length unless an interrupt stopped the
\* call between the appends of an epoch, and then a list is at most one entry
\* longer than the lists appended to after it.
C9_ListsAtMostEpochs ==
    fit.pc = "returned" =>
        /\ \A l \in 1..Len(fit.lists) : Len(fit.lists[l]) <= fit.epochs
        /\ fit.stop = "done" =>
             \A l \in 1..Len(fit.lists) : Len(fit.lists[l]) = fit.epochs - fit.skipped
        /\ fit.stop # "interrupt" =>
             \A l \in 1..Len(fit.lists) : Len(fit.lists[l]) = Len(fit.lists[1])
        /\ \A l \in 1..Len(fit.lists) : \A m \in l..Len(fit.lists) :
             /\ Len(fit.lists[m]) <= Len(fit.lists[l])
             /\ Len(fit.lists[l]) <= Len(fit.lists[m]) + 1

\* a call with epochs = 2 whose second shuffle raised: lists of one entry
C9_Witness ==
    /\ fit.pc = "returned" /\ fit.stop = "shuffle"
    /\ fit.epochs = 2 /\ fit.i = 1 /\ fit.skipped = 0
    /\ \A l \in 1..Len(fit.lists) : Len(fit.lists[l]) = 1

\* ------------------------------------------------------------------------
\* Properties of the mined negatives and of the loss terms
\* ------------------------------------------------------------------------

\* the anchor (batch element, anchor) at position p of the flattened batch
FlatAnchor(p) == <<((p - 1) \div total_predictions) + 1, ((p - 1) % total_predictions) + 1>>

\* the cross-entropies of the negative anchors of the batch fed, flattened
NegativeLosses ==
    LET flat == Flatten(feed)
    IN  SelectSeq([p \in 1..Len(flat) |-> [at |-> p, ce |-> flat[p].ce, mask |-> flat[p].mask]],
                  LAMBDA e : e.mask = I(0))

\* a top-k run that succeeded on a batch with positives and selected k >= 1 terms
TopKRan ==
    /\ loss_run.strategy = "top_k" /\ ~loss_run.raised
    /\ PositiveAnchors # {} /\ loss_run.k >= 1

\* C11: in a top-k run with num_positives >= 1 every one of the k selected
\* terms is the entry of a negative anchor, the terms are the k highest
\* cross-entropies among the negative anchors of the batch, and the negative
\* term is their sum divided by k.
C11_TopKOfNegatives ==
    TopKRan =>
        /\ \A i \in 1..Len(loss_run.picked_at) :
             FlatAnchor(loss_run.picked_at[i]) \notin PositiveAnchors
        /\ loss_run.k <= Len(NegativeLosses)
        /\ loss_run.picked = TopK([i \in 1..Len(NegativeLosses) |-> NegativeLosses[i].ce],
                                  loss_run.k)
        /\ loss_run.neg_loss = FDiv(FSumSeq(loss_run.picked), I(loss_run.k))

\* the cross-entropies of the negative anchors of batch element r
RowNegativeLosses(r) ==
    SelectSeq([a \in 1..Len(feed[r]) |-> [ce |-> feed[r][a].ce, mask |-> feed[r][a].mask]],
              LAMBDA e : e.mask = I(0))

\* a scan run that succeeded on a batch with positives
ScanRan == loss_run.strategy = "scan" /\ ~loss_run.raised /\ PositiveAnchors # {}

\* C12: in a scan run every batch element contributes exactly
\* round(num_positives * neg_ratio / batch_size) negative losses, the highest
\* cross-entropies among the negative anchors of that element.
C12_RowsContributeK ==
    ScanRan =>
        LET k == RoundHalfEven(NegProduct.n, NegProduct.d * batch_sz)
        IN  \A r \in 1..batch_sz :
              /\ Len(loss_run.picked[r]) = k
              /\ \A i \in 1..Len(loss_run.picked_at[r]) :
                   <<r, loss_run.picked_at[r][i]>> \notin PositiveAnchors
              /\ k <= Len(RowNegativeLosses(r))
              /\ loss_run.picked[r] =
                     TopK([i \in 1..Len(RowNegativeLosses(r)) |-> RowNegativeLosses(r)[i].ce], k)

\* the number of negative losses a scan run sums
ScanTermCount == FSumSeq([r \in 1..batch_sz |-> I(Len(loss_run.picked[r]))])

\* C13: in a scan run the divisor of the negative term, num_positives *
\* neg_ratio, is batch_size * k_per_sample, the number of terms summed, so the
\* negative term is the sum of the selected losses divided by their number.
C13_DivisorIsTermCount ==
    ScanRan =>
        /\ Fin(NegProduct.n, NegProduct.d) = I(batch_sz * loss_run.k)
        /\ Fin(NegProduct.n, NegProduct.d) = ScanTermCount
        /\ loss_run.neg_loss =
               FDiv(FSumSeq([r \in 1..batch_sz |-> FSumSeq(loss_run.picked[r])]), ScanTermCount)

\* the sum of f over a finite set of anchors
RECURSIVE SumOver(_, _)
SumOver(f, S) ==
    IF S = {} THEN I(0)
    ELSE LET x == CHOOSE y \in S : TRUE
         IN  FAdd(f[x], SumOver(f, S \ {x}))

AllAnchors == (1..batch_sz) \X (1..total_predictions)

\* smooth L1 of the difference n/d of two finite floats: 0.5*d^2 where
\* |d| < 1, |d| - 0.5 elsewhere
HuberOf(x, y) ==
    LET n == x.n * y.d - y.n * x.d
        d == x.d * y.d
    IN  IF Abs(n) < d THEN Fin(n * n, 2 * d * d) ELSE Fin(2 * Abs(n) - d, 2 * d)

\* the smooth L1 terms of the 4 coordinates of each anchor of the batch fed
AnchorHuber ==
    [ra \in AllAnchors |->
        LET c == feed[ra[1]][ra[2]]
        IN  FAdd(FAdd(HuberOf(c.gt[1], c.off[1]), HuberOf(c.gt[2], c.off[2])),
                 FAdd(HuberOf(c.gt[3], c.off[3]), HuberOf(c.gt[4], c.off[4])))]

\* C14: the localization loss is the sum over the positive anchors and their 4
\* coordinates of smoothL1(ground truth - prediction), divided by
\* num_positives; anchors with mask 0 contribute nothing; smoothL1 is 0.5 at
\* |d| = 1.
C14_LocLoss ==
    (Ran /\ ~loss_run.raised) =>
        /\ loss_run.loc = FDiv(SumOver(AnchorHuber, PositiveAnchors),
                               I(Cardinality(PositiveAnchors)))
        /\ SmoothL1(I(1)) = Fin(1, 2) /\ SmoothL1(I(-1)) = Fin(1, 2)

\* a run on a batch with a positive anchor that has a coordinate difference of
\* exactly 1 and a negative anchor whose offsets differ from its ground truth
C14_Witness ==
    /\ Ran /\ ~loss_run.raised
    /\ IsFin(loss_run.loc) /\ ~IsZero(loss_run.loc)
    /\ \E ra \in PositiveAnchors :
         FSub(feed[ra[1]][ra[2]].gt[2], feed[ra[1]][ra[2]].off[2]) = I(1)
    /\ \E ra \in AllAnchors \ PositiveAnchors : ~IsZero(AnchorHuber[ra])

\* ------------------------------------------------------------------------
\* Properties of the balancer
\* ------------------------------------------------------------------------

\* a step in which reset is called with an objective name it does not know
BadReset ==
    /\ bal'.calls = bal.calls + 1
    /\ bal'.last.op = "reset"
    /\ bal'.last.objective \notin {"alpha", "geo"}

\* C15: a reset with an objective name other than 'alpha' and 'geo' reports
\* the error and leaves the cardinalities, the scaled vectors, the objective
\* and the bound optimizer as they were, so the objective still refers to the
\* cardinalities the balancer holds.
C15_BadResetKeepsState ==
    [][BadReset =>
        /\ bal'.last.reported
        /\ bal'.cardinalities = bal.cardinalities
        /\ bal'.scaled_hcvgs = bal.scaled_hcvgs
        /\ bal'.objective = bal.objective
        /\ bal'.optimizer = bal.optimizer
        /\ bal'.objective.of = bal'.cardinalities.id]_vars

\* ------------------------------------------------------------------------
\* Properties of the reported losses
\* ------------------------------------------------------------------------

\* what session.run returns on the batch without positive anchors
ZeroPositivesFetch == Fetched(fit.strategy, WithFinalLoss(SampleRuns[fit.strategy][1]))

\* C16: on a batch with zero positive anchors every loss the driver fetches,
\* the total and the components, is 0, and the running losses and the values
\* reported per epoch are finite.
C16_ZeroPositivesReportFinite ==
    fit.pc # "idle" =>
        /\ \A b \in 1..Len(fit.outcomes) :
             (fit.outcomes[b].kind = "ok" /\ fit.outcomes[b].fetched = ZeroPositivesFetch) =>
                 \A l \in 1..Len(fit.losses) : fit.outcomes[b].fetched[l] = I(0)
        /\ \A l \in 1..Len(fit.losses) : IsFin(fit.losses[l])
        /\ \A l \in 1..Len(fit.lists) :
             \A e \in 1..Len(fit.lists[l]) : IsFin(fit.lists[l][e])

\* the values of loss l fetched by the successful batches of the epoch, in order
OkValues(l) ==
    LET ok == SelectSeq(fit.outcomes, LAMBDA o : o.kind = "ok")
    IN  [t \in 1..Len(ok) |-> ok[t].fetched[l]]

\* the exponential moving average of a sequence from 0, as a weighted sum:
\* the value of batch t of n weighs 0.1 * 0.9^(n - t)
RECURSIVE Pow(_, _)
Pow(b, e) == IF e = 0 THEN 1 ELSE b * Pow(b, e - 1)

EmaOf(v) ==
    FSumSeq([t \in 1..Len(v) |->
                FMul(Fin(Pow(9, Len(v) - t), 10 * Pow(10, Len(v) - t)), v[t])])

\* C17: the running value of a loss is the exponential moving average, from 0,
\* of the values of the epoch's successful batches alone, and the value
\* appended for the epoch is that average.
C17_EpochValueIsEMA ==
    /\ [](fit.pc = "batch" =>
            \A l \in 1..Len(fit.losses) : fit.losses[l] = EmaOf(OkValues(l)))
    /\ [][EpochAppended =>
            \A l \in 1..Len(fit.lists) :
                fit'.lists[l] = Append(fit.lists[l], EmaOf(OkValues(l)))]_vars

C17_Witness ==
    /\ fit.pc = "epoch" /\ fit.i = 2
    /\ Len(fit.outcomes) = 2
    /\ \A b \in 1..2 : fit.outcomes[b].kind = "ok"
    /\ Len(fit.lists[1]) = 2
    /\ \A e \in 1..2 : IsFin(fit.lists[1][e]) /\ ~IsZero(fit.lists[1][e])

\* ------------------------------------------------------------------------
\* Properties of the training state's flags
\* ------------------------------------------------------------------------

\* C19: over any interleaving of fit_focal, fit_top_k and fit_scan calls with
\* any optimizers the training graph is built at most once, each strategy's
\* loss graph is built at most once, and _training_vars_are_ready and the
\* *_is_build flags never go from true to false.
C19_FlagsSetOnce ==
    /\ [](/\ train.graph_builds <= 1
          /\ \A s \in Strategies : train.loss_builds[s] <= 1)
    /\ [][/\ train.training_vars_are_ready => train'.training_vars_are_ready
          /\ \A s \in Strategies : train.is_build[s] => train'.is_build[s]]_vars

C19_Witness ==
    /\ train.training_vars_are_ready /\ train.graph_builds = 1
    /\ \A s \in Strategies : train.is_build[s] /\ train.loss_builds[s] = 1
    /\ train.optimizer["focal"] = "opt_b" /\ train.optimizer["scan"] = "opt_a"
    /\ Len(fit.made) = 1 /\ ~fit.loss_built

\* ------------------------------------------------------------------------
\* Properties of the focal loss
\* ------------------------------------------------------------------------

\* (1 - p_true)^gamma * cross-entropy of each anchor of the batch fed
FocalTerm ==
    [ra \in AllAnchors |->
        LET c == feed[ra[1]][ra[2]]
            g == loss_run.gamma
        IN  FMul(Fin(Pow(c.conf.d - c.conf.n, g), Pow(c.conf.d, g)), c.ce)]

FocalRan == loss_run.strategy = "focal" /\ PositiveAnchors # {}

BatchSamples(b) ==
    {data.images[p] : p \in ((b - 1) * batch_sz + 1)..(b * batch_sz)}

SeqRange(q) == {q[k] : k \in 1..Len(q)}

\* C21: in every epoch the four arrays hold one common permutation of the
\* samples; batch j is positions [j*batch_sz, (j+1)*batch_sz) of each of them,
\* exactly batch_sz samples; the epoch runs exactly floor(len(images)/batch_sz)
\* batches; its batches are pairwise disjoint; the trailing len(images) mod
\* batch_sz samples of the shuffled order are in no batch.
C21_BatchesAligned ==
    LET n == Len(data.images)
    IN  data.pc # "idle" =>
        /\ data.loc_masks = data.images /\ data.labels = data.images
        /\ data.gt_locs = data.images
        /\ SeqRange(data.images) = 1..n
        /\ data.n_batches * batch_sz <= n /\ n < (data.n_batches + 1) * batch_sz
        /\ Len(data.batches) <= data.n_batches
        /\ (data.pc = "epoch" /\ data.i > 0) => Len(data.batches) = data.n_batches
        /\ \A b \in 1..Len(data.batches) :
             LET t == data.batches[b]
             IN  /\ Len(t.img_batch) = batch_sz
                 /\ t.loc_mask_batch = t.img_batch /\ t.labels_batch = t.img_batch
                 /\ t.gt_locs_batch = t.img_batch
                 /\ SeqRange(t.img_batch) = BatchSamples(b)
                 /\ Cardinality(BatchSamples(b)) = batch_sz
        /\ \A b, c \in 1..Len(data.batches) :
             b # c => SeqRange(data.batches[b].img_batch)
                        \cap SeqRange(data.batches[c].img_batch) = {}
        /\ \A p \in (data.n_batches * batch_sz + 1)..n :
             \A b \in 1..Len(data.batches) :
                 data.images[p] \notin SeqRange(data.batches[b].img_batch)

\* the second epoch of a call on 5 samples has taken its 2 batches, in an
\* order that differs from the order of the data passed
C21_Witness ==
    /\ data.pc = "epoch" /\ data.i = 2
    /\ Len(data.images) = 5 /\ Len(data.batches) = 2
    /\ data.images[5] # 5 /\ data.images[1] = 3

\* ------------------------------------------------------------------------
\* Properties of the offsets of get_dbox
\* ------------------------------------------------------------------------

\* the valid arguments (b, s, x, y) of get_dbox, 0-based
ValidCoordinates ==
    {c \in (0..(Len(dcs) - 1)) \X (0..3) \X (0..3) \X (0..3) :
        /\ c[2] < Len(dcs[c[1] + 1].dboxes)
        /\ c[3] < dc_block_feature_map_sizes[c[1] + 1][1]
        /\ c[4] < dc_block_feature_map_sizes[c[1] + 1][2]}

\* the first offset of the segment of shape s of block b (0-based)
SegmentStart(b, s) ==
    BlockBase(b + 1)
    + s * dc_block_feature_map_sizes[b + 1][1] * dc_block_feature_map_sizes[b + 1][2]

SegmentSize(b) ==
    dc_block_feature_map_sizes[b + 1][1] * dc_block_feature_map_sizes[b + 1][2]

\* C22: the offset get_dbox computes for valid (b, s, x, y) lies in the
\* fw_b * fh_b segment of shape s of block b, and two different valid
\* coordinates never have the same offset, for square and non-square feature
\* maps.
C22_OffsetInjectiveInRange ==
    dbox_call.status # "none" =>
        /\ \A c \in ValidCoordinates :
             LET off == DboxOffset(c[1], c[2], c[3], c[4])
             IN  /\ SegmentStart(c[1], c[2]) <= off
                 /\ off < SegmentStart(c[1], c[2]) + SegmentSize(c[1])
        /\ \A c, e \in ValidCoordinates :
             DboxOffset(c[1], c[2], c[3], c[4]) = DboxOffset(e[1], e[2], e[3], e[4])
                 => c = e

\* ------------------------------------------------------------------------
\* Properties of the end of a training call
\* ------------------------------------------------------------------------

Running == fit.pc \in {"epoch", "batch"}

\* how far the loops of the call are: epochs begun, then batches attempted
LoopProgress ==
    fit.i * (fit.n_batches + 2) + (IF fit.pc = "batch" THEN fit.j + 1 ELSE 0)

IsPrefix(p, q) == Len(p) <= Len(q) /\ SubSeq(q, 1, Len(p)) = p

\* an exception left the batch loop of the epoch
EpochEscaped == fit.pc = "batch" /\ fit'.skipped = fit.skipped + 1

\* C23: once the minimization op is obtained, every step of the epoch loop,
\* a raising or interrupted one included, either goes on with the loops or
\* returns lists that extend the ones collected so far; the loops are bounded,
\* so the call returns; and after an exception that leaves the batch loop of
\* an epoch the call goes on with the following epoch.
C23_AlwaysReturnsHistory ==
    /\ [][Running =>
            /\ fit'.pc \in {"epoch", "batch", "returned"}
            /\ \A l \in 1..Len(fit.lists) : IsPrefix(fit.lists[l], fit'.lists[l])
            /\ fit'.pc # "returned" => LoopProgress' > LoopProgress]_vars
    /\ [](Running => LoopProgress <= fit.epochs * (fit.n_batches + 2))
    /\ [][EpochEscaped =>
            /\ fit'.pc = "epoch" /\ fit'.i = fit.i + 1 /\ fit'.stop = "running"
            /\ fit'.lists = fit.lists]_vars
    /\ [](fit.pc = "epoch" /\ fit.i < fit.epochs => ENABLED StartEpoch)

\* an exception left the batch loop of the first epoch, the second epoch ran
\* and appended, and the call returned the one entry
C23_Witness ==
    /\ fit.pc = "returned" /\ fit.stop = "done"
    /\ fit.epochs = 2 /\ fit.i = 2 /\ fit.skipped = 1
    /\ Len(fit.outcomes) = fit.n_batches /\ fit.n_batches = 2
    /\ \A l \in 1..Len(fit.lists) : Len(fit.lists[l]) = 1

\* ------------------------------------------------------------------------
\* Properties of the bindings of the strategies
\* ------------------------------------------------------------------------

\* C24: a training call of one strategy changes neither the bound optimizer,
\* nor the built flag, nor the cached minimization op of the other two
\* strategies, and no step of the call after its entry changes a binding.
C24_BindingsIndependent ==
    /\ [][Called =>
            \A s \in Strategies \ {fit'.strategy} :
                /\ train'.optimizer[s] = train.optimizer[s]
                /\ train'.is_build[s] = train.is_build[s]
                /\ train'.train_op[s] = train.train_op[s]
                /\ train'.loss_builds[s] = train.loss_builds[s]]_vars
    /\ [][~Called => train' = train]_vars

\* fit_focal has just bound another optimizer while top_k and scan keep theirs
C24_Witness ==
    /\ fit.pc = "epoch" /\ fit.strategy = "focal" /\ fit.optimizer = "opt_b"
    /\ fit.made = <<Minimize("focal", "opt_b", fit.global_step)>> /\ ~fit.loss_built
    /\ train.optimizer["focal"] = "opt_b"
    /\ train.optimizer["top_k"] = "opt_a" /\ train.train_op["top_k"].optimizer = "opt_a"
    /\ train.optimizer["scan"] = "opt_a" /\ train.train_op["scan"].optimizer = "opt_a"
    /\ \A s \in Strategies : train.is_build[s]

\* C25 as stated: the minimization op a training call uses was made by
\* optimizer.minimize with the optimizer and the global_step of that call.
C25_OpFromCallArguments ==
    [][Called => fit'.train_op = CallOp]_vars

\* C25 (amended): the op a training call uses minimizes the call's strategy
\* with the call's optimizer; its global_step is the one of the call when the
\* optimizer differs from the one bound to the strategy, and otherwise the one
\* of the cached op, made by the call that bound the optimizer.
C25_OpFromBindingCall ==
    /\ [][Called =>
            /\ fit'.train_op.loss = fit'.strategy
            /\ fit'.train_op.optimizer = fit'.optimizer
            /\ fit'.train_op.global_step =
                 IF train.optimizer[fit'.strategy] # fit'.optimizer
                 THEN fit'.global_step
                 ELSE train.train_op[fit'.strategy].global_step
            /\ train'.train_op[fit'.strategy] = fit'.train_op]_vars
    /\ [](\A s \in Strategies :
            train.is_build[s] => train.train_op[s].optimizer = train.optimizer[s])

\* fit_top_k called with the bound optimizer and no global_step uses the op
\* made with the global_step of the call that bound the optimizer
C25_Witness ==
    /\ fit.pc = "epoch" /\ fit.strategy = "top_k"
    /\ fit.global_step = "None" /\ fit.train_op.global_step = "step"
    /\ fit.train_op.optimizer = fit.optimizer /\ fit.made = <<>>

\* an optimize call with optimizer o that runs at least one iteration
Optimized(o) ==
    /\ bal'.last.op = "optimize" /\ bal'.last.optimizer = o
    /\ \E iterations \in IterationCounts \ {0} : bal' = optimize(bal, o, iterations)

\* a reset call
ResetCalled == bal'.last.op = "reset" /\ bal'.calls = bal.calls + 1

\* the objective reset was asked for, over the cardinalities it made
ObjectiveOfReset == [kind |-> bal.last.objective, of |-> bal.cardinalities.id]

\* C26: optimize rebuilds the train op exactly when the optimizer passed
\* differs from the bound one; reset clears the binding; the first optimize
\* call after a reset rebuilds the train op against the objective of that
\* reset, also with the optimizer bound before the reset; the train op a call
\* runs minimizes the balancer's current objective.
C26_TrainOpFollowsObjective ==
    /\ [][\A o \in BalancerOptimizers :
            Optimized(o) => (bal'.last.rebuilt <=> bal.optimizer # o)]_vars
    /\ [][ResetCalled => bal'.optimizer = "None"]_vars
    /\ [][\A o \in BalancerOptimizers :
            (Optimized(o) /\ bal.last.op = "reset") =>
                /\ bal'.last.rebuilt
                /\ bal'.train_op = [optimizer |-> o, objective |-> ObjectiveOfReset]]_vars
    /\ [][\A o \in BalancerOptimizers :
            (Optimized(o) /\ ~bal'.last.raised) =>
                bal'.train_op = [optimizer |-> o, objective |-> bal'.objective]]_vars

====
